---- MODULE Spec2Model ----
(***************************************************************************)
(* i3-resurrect: the command handlers of i3_resurrect/main.py and the      *)
(* helpers of i3_resurrect/util.py, as one state machine.                  *)
(*                                                                         *)
(* The state is what one invocation of the program works on: the snapshot  *)
(* directory (its files in the order the filesystem enumerates them), the  *)
(* window manager's focus, and what the invocation did (the commands it    *)
(* sent, the files it read, the errors it raised, its exit code).  Each    *)
(* action is one whole command handler.                                    *)
(*                                                                         *)
(* Workspace ids and names are sequences of one-character strings, so that *)
(* filename_filter and str.isdigit are computed as the code computes them. *)
(***************************************************************************)
EXTENDS Integers, Sequences, FiniteSets, TLC

VARIABLES files, dirExists, focused, previous, pc, inv, log, exitCode,
          files0, dirExists0, focused0

vars == <<files, dirExists, focused, previous, pc, inv, log, exitCode,
          files0, dirExists0, focused0>>

----------------------------------------------------------------------------
(* Bounds *)

\* longest WORKSPACES argument list of an invocation
MaxArgs == 2
\* workspace names known to the window manager, in the order it lists them
WsList == << <<"1">>, <<"a", ":", "b">> >>
WsIds == {WsList[i] : i \in 1..Len(WsList)}
\* workspace ids that snapshot files of the initial directory are named after
FileIds == { <<"1">>, <<"a", "b">> }
None == <<>>

----------------------------------------------------------------------------
(* util.py *)

blacklist == {"/", "\\", ":", "*", "\"", "<", ">", "|"}

NotBlacklisted(c) == c \notin blacklist

filename_filter(filename) == SelectSeq(filename, NotBlacklisted)

Digits == {"0", "1", "2", "3", "4", "5", "6", "7", "8", "9"}

\* str.isdigit: non-empty and every character a digit
isdigit(s) == Len(s) > 0 /\ \A i \in 1..Len(s) : s[i] \in Digits

IsLayout(f) == f.kind = "layout"
IsPrograms(f) == f.kind = "programs"

\* an event of the invocation: a command sent to the window manager, a file
\* read, a layout injection, a program restore, a message or an exception
Ev(op, ws, src, what) ==
    [op |-> op, ws |-> ws, src |-> src, what |-> what,
     noABF |-> FALSE, number |-> FALSE, clear |-> FALSE]

Raise(st, what) ==
    [st EXCEPT !.status = "exc", !.log = Append(@, Ev("raise", None, None, what))]

Exit1(st, what) ==
    [st EXCEPT !.status = "exit1", !.log = Append(@, Ev("eprint", None, None, what))]

Running(st) == st.status = "run"

\* list_filenames: the layout files and the programs files of the directory,
\* each in enumeration order, paired by position.  error is the exception it
\* ends with ("" when it returns): next(os.walk(d)) of a missing directory
\* raises StopIteration, programs_filenames[n] past the end raises IndexError.
list_filenames(exists, fs) ==
    LET layout_filenames == SelectSeq(fs, IsLayout)
        programs_filenames == SelectSeq(fs, IsPrograms)
        error == IF ~exists THEN "StopIteration"
                 ELSE IF Len(programs_filenames) < Len(layout_filenames)
                      THEN "IndexError"
                      ELSE ""
    IN  [error |-> error,
         files |-> IF error # "" THEN <<>>
                   ELSE [n \in 1..Len(layout_filenames) |->
                           [layout_file |-> layout_filenames[n],
                            programs_file |-> programs_filenames[n]]]]

----------------------------------------------------------------------------
(* The snapshot directory *)

\* a path of the directory: workspace_<id>_<kind>.json
Path(id, kind) == [id |-> id, kind |-> kind]

PathOf(f) == Path(f.id, f.kind)

Exists(fs, p) == \E i \in 1..Len(fs) : PathOf(fs[i]) = p

\* Path.unlink: the file is removed, FileNotFoundError when it is absent
unlink(st, p) ==
    IF Exists(st.files, p)
    THEN [st EXCEPT !.files = SelectSeq(@, LAMBDA f : PathOf(f) # p),
                    !.log = Append(@, Ev("unlink", None, p.id, p.kind))]
    ELSE Raise(st, "FileNotFoundError")

----------------------------------------------------------------------------
(* main.py: rm *)

delete(st, layout_file, programs_file, target) ==
    LET st1 == IF target # "programs_only" THEN unlink(st, programs_file) ELSE st
    IN  IF Running(st1) /\ target # "layout_only"
        THEN unlink(st1, layout_file)
        ELSE st1

RECURSIVE delete_all(_, _, _)
delete_all(st, pairs, target) ==
    IF pairs = <<>> \/ ~Running(st) THEN st
    ELSE delete_all(delete(st, PathOf(Head(pairs).layout_file),
                               PathOf(Head(pairs).programs_file), target),
                    Tail(pairs), target)

clear_directory(st, target) ==
    LET listed == list_filenames(st.dirExists, st.files)
    IN  IF listed.error # "" THEN Raise(st, listed.error)
        ELSE delete_all(st, listed.files, target)

RECURSIVE remove_each(_, _, _)
remove_each(st, workspaces, target) ==
    IF workspaces = <<>> \/ ~Running(st) THEN st
    ELSE LET workspace_id == filename_filter(Head(workspaces))
         IN  remove_each(delete(st, Path(workspace_id, "layout"),
                                    Path(workspace_id, "programs"), target),
                         Tail(workspaces), target)

\* os.rmdir: OSError unless the directory is empty
rmdir(st) ==
    IF st.files = <<>> THEN [st EXCEPT !.dirExists = FALSE]
    ELSE Raise(st, "OSError")

remove(st, a) ==
    IF a.session /\ st.dirExists
    THEN LET st1 == clear_directory(st, a.target)
         IN  IF Running(st1) /\ a.profile THEN rmdir(st1) ELSE st1
    ELSE IF a.workspace
         THEN remove_each(st, a.workspaces, a.target)
         ELSE Exit1(st, "either --workspace or --session option should be specified.")

----------------------------------------------------------------------------
(* The window manager (i3 through i3ipc) *)

RECURSIVE LeadingDigits(_)
LeadingDigits(s) ==
    IF s = <<>> \/ Head(s) \notin Digits THEN <<>>
    ELSE <<Head(s)>> \o LeadingDigits(Tail(s))

\* str(workspace().num): the number a workspace name starts with, -1 if none
NumStr(name) ==
    IF LeadingDigits(name) = <<>> THEN <<"-", "1">> ELSE LeadingDigits(name)

\* the switch without its flag
Switch_plain(ws, noABF, number) ==
    [Ev("workspace", ws, None, "") EXCEPT !.noABF = FALSE, !.number = number]

\* the command string 'workspace [--no-auto-back-and-forth] [number] <ws>'
Switch(ws, noABF, number) ==
    [Ev("workspace", ws, None, "") EXCEPT !.noABF = noABF, !.number = number]

\* 'workspace number N' names the workspace whose number is N, if there is one
Resolve(ev) ==
    IF ev.number /\ \E w \in WsIds : NumStr(w) = ev.ws
    THEN CHOOSE w \in WsIds : NumStr(w) = ev.ws
    ELSE ev.ws

\* i3 with workspace_auto_back_and_forth on: a switch to the focused workspace
\* goes back to the previous one, unless the command says otherwise
i3_workspace(st, ev) ==
    IF Resolve(ev) = st.focused
    THEN IF ~ev.noABF /\ st.previous # None
         THEN [st EXCEPT !.focused = st.previous, !.previous = st.focused]
         ELSE st
    ELSE [st EXCEPT !.focused = Resolve(ev), !.previous = st.focused]

\* i3.command(...)
command(st, ev) ==
    IF ev.op = "workspace"
    THEN [i3_workspace(st, ev) EXCEPT !.log = Append(@, ev)]
    ELSE [st EXCEPT !.log = Append(@, ev)]

----------------------------------------------------------------------------
(* layout.py and programs.py *)

NoneDoc == [id |-> None, kind |-> "none", json |-> FALSE, hasName |-> FALSE, name |-> None]

FileAt(fs, p) == fs[CHOOSE i \in 1..Len(fs) : PathOf(fs[i]) = p]

Report(st, what) == [st EXCEPT !.log = Append(@, Ev("eprint", None, None, what))]

\* layout.read / programs.read: the document of workspace_<id>_<kind>.json,
\* None (reported) when the file is absent or is not JSON
read(st, workspace_id, kind) ==
    LET p == Path(filename_filter(workspace_id), kind)
        st1 == [st EXCEPT !.log = Append(@, Ev("read", None, p.id, kind))]
    IN  IF Exists(st.files, p) /\ FileAt(st.files, p).json
        THEN [st |-> st1, doc |-> FileAt(st.files, p)]
        ELSE [st |-> Report(st1, "snapshot not found"), doc |-> NoneDoc]

\* layout.restore: one append_layout command scoped to the workspace
layout_restore(st, workspace_name, saved_layout) ==
    command(st, Ev("append_layout", workspace_name, saved_layout.id, ""))

\* programs.restore: the saved programs are launched on the workspace
programs_restore(st, workspace_name, saved_programs, clear) ==
    [st EXCEPT !.log = Append(@,
        [Ev("programs.restore", workspace_name, saved_programs.id, "")
            EXCEPT !.clear = clear])]

\* layout.list: the names (numbers with numeric) of the live workspaces
layout_list(numeric) ==
    [i \in 1..Len(WsList) |-> IF numeric THEN NumStr(WsList[i]) ELSE WsList[i]]

\* the live workspace an id selects, None if there is none
LiveWorkspace(workspace_id, numeric) ==
    IF numeric
    THEN IF \E w \in WsIds : NumStr(w) = workspace_id
         THEN CHOOSE w \in WsIds : NumStr(w) = workspace_id
         ELSE None
    ELSE IF workspace_id \in WsIds THEN workspace_id ELSE None

\* the file is overwritten in place, a new one enumerated first or last
WriteFile(fs, f, atFront) ==
    IF Exists(fs, PathOf(f))
    THEN [i \in 1..Len(fs) |-> IF PathOf(fs[i]) = PathOf(f) THEN f ELSE fs[i]]
    ELSE IF atFront THEN <<f>> \o fs ELSE Append(fs, f)

\* layout.save / programs.save: the snapshot file of the live workspace
save_file(st, workspace_id, numeric, kind, atFront) ==
    LET live == LiveWorkspace(workspace_id, numeric)
    IN  IF live = None THEN Report(st, "workspace not found")
        ELSE [st EXCEPT !.files = WriteFile(@,
                 [id |-> filename_filter(workspace_id), kind |-> kind,
                  json |-> TRUE, hasName |-> TRUE, name |-> live], atFront)]

----------------------------------------------------------------------------
(* main.py: restore *)

\* a layout without a name restored under the id of its file
restore_workspace_fallback(st, saved_layout, saved_programs, target, clear) ==
    IF saved_layout = NoneDoc THEN st
    ELSE LET workspace_name == IF saved_layout.hasName THEN saved_layout.name
                               ELSE saved_layout.id
             st1 == command(st, Switch(workspace_name, TRUE, FALSE))
             st2 == IF target # "programs_only"
                    THEN layout_restore(st1, workspace_name, saved_layout)
                    ELSE st1
         IN  IF target # "layout_only"
             THEN programs_restore(st2, workspace_name, saved_programs, clear)
             ELSE st2

\* the programs launched before the layout is injected
restore_workspace_swapped(st, saved_layout, saved_programs, target, clear) ==
    IF saved_layout = NoneDoc THEN st
    ELSE IF ~saved_layout.hasName THEN Exit1(st, "Workspace name not found.")
    ELSE LET workspace_name == saved_layout.name
             st1 == command(st, Switch(workspace_name, TRUE, FALSE))
             st2 == IF target # "layout_only"
                    THEN programs_restore(st1, workspace_name, saved_programs, clear)
                    ELSE st1
         IN  IF target # "programs_only"
             THEN layout_restore(st2, workspace_name, saved_layout)
             ELSE st2

restore_workspace(st, saved_layout, saved_programs, target, clear) ==
    IF saved_layout = NoneDoc THEN st
    ELSE IF ~saved_layout.hasName THEN Exit1(st, "Workspace name not found.")
    ELSE LET workspace_name == saved_layout.name
             st1 == command(st, Switch(workspace_name, TRUE, FALSE))
             st2 == IF target # "programs_only"
                    THEN layout_restore(st1, workspace_name, saved_layout)
                    ELSE st1
         IN  IF target # "layout_only"
             THEN programs_restore(st2, workspace_name, saved_programs, clear)
             ELSE st2

\* json.loads(file.read_text()): JSONDecodeError when the text is not JSON
json_loads(st, f) ==
    LET st1 == [st EXCEPT !.log = Append(@, Ev("read", None, f.id, f.kind))]
    IN  IF f.json THEN [st |-> st1, doc |-> f]
        ELSE [st |-> Raise(st1, "JSONDecodeError"), doc |-> NoneDoc]

\* restore --session: the loop over list_filenames(directory)
RECURSIVE restore_files(_, _, _, _)
restore_files(st, pairs, target, clear) ==
    IF pairs = <<>> \/ ~Running(st) THEN st
    ELSE LET l == json_loads(st, Head(pairs).layout_file)
             p == IF Running(l.st) /\ target # "layout_only"
                  THEN json_loads(l.st, Head(pairs).programs_file)
                  ELSE [st |-> l.st, doc |-> NoneDoc]
         IN  IF ~Running(p.st) THEN p.st
             ELSE restore_files(restore_workspace(p.st, l.doc, p.doc, target, clear),
                                Tail(pairs), target, clear)

\* restore --workspace: the loop over WORKSPACES
RECURSIVE restore_each(_, _, _, _, _)
restore_each(st, workspaces, numeric, target, clear) ==
    IF workspaces = <<>> \/ ~Running(st) THEN st
    ELSE LET workspace_id == Head(workspaces)
         IN  IF numeric /\ ~isdigit(workspace_id)
             THEN Exit1(st, "Invalid workspace number.")
             ELSE LET l == read(st, workspace_id, "layout")
                      p == IF target # "layout_only"
                           THEN read(l.st, workspace_id, "programs")
                           ELSE [st |-> l.st, doc |-> NoneDoc]
                  IN  restore_each(restore_workspace(p.st, l.doc, p.doc, target, clear),
                                   Tail(workspaces), numeric, target, clear)

\* the workspace to return to read after the restore
restore_workspaces_late(st, a) ==
    LET focused_workspace == st.focused
        workspaces == IF a.workspaces = <<>>
                      THEN IF a.numeric THEN <<NumStr(st.focused)>>
                           ELSE <<focused_workspace>>
                      ELSE a.workspaces
        listed == list_filenames(st.dirExists, st.files)
        st1 == IF a.session
               THEN IF listed.error # "" THEN Raise(st, listed.error)
                    ELSE restore_files(st, listed.files, a.target, a.clear)
               ELSE IF a.workspace
                    THEN restore_each(st, workspaces, a.numeric, a.target, a.clear)
                    ELSE Exit1(st, "Either --workspace or --session should be specified.")
    IN  IF Running(st1) /\ a.focus
        THEN command([st1 EXCEPT !.log = Append(@, Ev("sleep", None, None, ""))],
                     Switch(st1.focused, TRUE, FALSE))
        ELSE st1

restore_workspaces(st, a) ==
    LET focused_workspace == st.focused
        workspaces == IF a.workspaces = <<>>
                      THEN IF a.numeric THEN <<NumStr(st.focused)>>
                           ELSE <<focused_workspace>>
                      ELSE a.workspaces
        listed == list_filenames(st.dirExists, st.files)
        st1 == IF a.session
               THEN IF listed.error # "" THEN Raise(st, listed.error)
                    ELSE restore_files(st, listed.files, a.target, a.clear)
               ELSE IF a.workspace
                    THEN restore_each(st, workspaces, a.numeric, a.target, a.clear)
                    ELSE Exit1(st, "Either --workspace or --session should be specified.")
    IN  IF Running(st1) /\ a.focus
        THEN command([st1 EXCEPT !.log = Append(@, Ev("sleep", None, None, ""))],
                     Switch(focused_workspace, TRUE, FALSE))
        ELSE st1

----------------------------------------------------------------------------
(* main.py: load *)

load_target(st, a) ==
    IF a.numeric
    THEN IF a.target_workspace = None THEN NumStr(st.focused) ELSE a.target_workspace
    ELSE st.focused

load_workspaces(st, a) ==
    LET target_workspace == load_target(st, a)
    IN  IF a.numeric /\ ~isdigit(a.workspace_layout)
        THEN Exit1(st, "Invalid workspace number.")
        ELSE IF a.numeric /\ a.target_workspace # None /\ ~isdigit(a.target_workspace)
        THEN Exit1(st, "Invalid workspace number.")
        ELSE IF ~a.workspace
        THEN Exit1(st, "--workspace option should be specified.")
        ELSE LET l == read(st, a.workspace_layout, "layout")
             IN  IF l.doc = NoneDoc THEN [l.st EXCEPT !.status = "exit1"]
                 ELSE LET p == IF a.target # "layout_only"
                               THEN read(l.st, a.workspace_layout, "programs")
                               ELSE [st |-> l.st, doc |-> NoneDoc]
                          st1 == command(p.st, Switch(target_workspace, TRUE, a.numeric))
                          st2 == IF a.target # "programs_only"
                                 THEN layout_restore(st1, target_workspace, l.doc)
                                 ELSE st1
                      IN  IF a.target # "layout_only"
                          THEN programs_restore(st2, target_workspace, p.doc, a.clear)
                          ELSE st2

----------------------------------------------------------------------------
(* main.py: save *)

RECURSIVE save_each(_, _, _, _, _)
save_each(st, workspaces, numeric, target, atFront) ==
    IF workspaces = <<>> \/ ~Running(st) THEN st
    ELSE LET workspace_id == Head(workspaces)
             st1 == IF target # "programs_only"
                    THEN save_file(st, workspace_id, numeric, "layout", atFront)
                    ELSE st
             st2 == IF target # "layout_only"
                    THEN save_file(st1, workspace_id, numeric, "programs", atFront)
                    ELSE st1
         IN  save_each(st2, Tail(workspaces), numeric, target, atFront)

save_workspace(st, a) ==
    LET workspaces == IF a.workspaces = <<>> THEN <<st.focused>> ELSE a.workspaces
        \* Path(directory).mkdir(parents=True, exist_ok=True)
        st1 == [st EXCEPT !.dirExists = TRUE]
        st2 == IF a.clear /\ st1.dirExists THEN clear_directory(st1, a.target) ELSE st1
    IN  IF ~Running(st2) THEN st2
        ELSE IF a.session
        THEN save_each(st2, layout_list(a.numeric), a.numeric, a.target, a.atFront)
        ELSE IF ~a.workspace
        THEN Exit1(st2, "Either --workspace or --session should be specified.")
        ELSE save_each(st2, workspaces, a.numeric, a.target, a.atFront)

----------------------------------------------------------------------------
(* main.py: close *)

RECURSIVE close_each(_, _)
close_each(st, workspaces) ==
    IF workspaces = <<>> THEN st
    ELSE close_each(command(st, Ev("kill", Head(workspaces), None, "")),
                    Tail(workspaces))

close(st, a) ==
    LET workspaces == IF a.workspaces = <<>> THEN <<st.focused>> ELSE a.workspaces
    IN  IF a.session THEN close_each(st, layout_list(FALSE))
        ELSE IF ~a.workspace
        THEN Exit1(st, "either --workspace or --session option should be specified.")
        ELSE close_each(st, workspaces)

----------------------------------------------------------------------------
(* The state machine: one invocation of the program *)

Targets == {"", "layout_only", "programs_only"}

\* the documents a snapshot file of the initial directory may hold: text that
\* is not JSON, a layout without a name, a layout saved from a live workspace
LayoutFiles ==
    { [id |-> id, kind |-> "layout", json |-> FALSE, hasName |-> FALSE, name |-> None]
        : id \in FileIds }
    \cup { [id |-> id, kind |-> "layout", json |-> TRUE, hasName |-> FALSE, name |-> None]
        : id \in FileIds }
    \cup { [id |-> filename_filter(w), kind |-> "layout", json |-> TRUE,
            hasName |-> TRUE, name |-> w] : w \in {w \in WsIds : filename_filter(w) \in FileIds} }

ProgramsFiles ==
    { [id |-> id, kind |-> "programs", json |-> j, hasName |-> FALSE, name |-> None]
        : id \in FileIds, j \in BOOLEAN }

Directories ==
    { fs \in UNION { [1..n -> LayoutFiles \cup ProgramsFiles]
                       : n \in 0..(2 * Cardinality(FileIds)) } :
        \A i, j \in 1..Len(fs) : PathOf(fs[i]) = PathOf(fs[j]) => i = j }

ArgLists == UNION { [1..n -> WsIds] : n \in 0..MaxArgs }

NoArgs ==
    [cmd |-> "", workspace |-> FALSE, session |-> FALSE, numeric |-> FALSE,
     profile |-> FALSE, clear |-> FALSE, focus |-> FALSE, target |-> "",
     workspaces |-> <<>>, workspace_layout |-> None, target_workspace |-> None,
     atFront |-> FALSE]

Init ==
    /\ files \in Directories
    /\ dirExists \in IF files = <<>> THEN BOOLEAN ELSE {TRUE}
    /\ focused \in WsIds
    /\ previous \in WsIds \ {focused}
    /\ pc = "idle"
    /\ inv = NoArgs
    /\ log = <<>>
    /\ exitCode = 0
    /\ files0 = files
    /\ dirExists0 = dirExists
    /\ focused0 = focused

Start == [status |-> "run", log |-> <<>>, files |-> files, dirExists |-> dirExists,
          focused |-> focused, previous |-> previous]

\* the process ends: exit code 0, or 1 after sys.exit(1) or a traceback
Finish(a, st) ==
    /\ pc' = "done"
    /\ inv' = a
    /\ files' = st.files
    /\ dirExists' = st.dirExists
    /\ focused' = st.focused
    /\ previous' = st.previous
    /\ log' = st.log
    /\ exitCode' = IF st.status = "run" THEN 0 ELSE 1
    /\ UNCHANGED <<files0, dirExists0, focused0>>

\* WORKSPACES matter only where the handler reads them
ArgsFor(session, workspace) == IF workspace /\ ~session THEN ArgLists ELSE {<<>>}

Save ==
    /\ pc = "idle"
    /\ \E workspace, session, numeric, profile, clear, atFront \in BOOLEAN, target \in Targets :
      \E workspaces \in ArgsFor(session, workspace) :
        LET a == [NoArgs EXCEPT !.cmd = "save", !.workspace = workspace,
                      !.session = session, !.numeric = numeric, !.profile = profile,
                      !.clear = clear, !.target = target, !.workspaces = workspaces,
                      !.atFront = atFront]
        IN  Finish(a, save_workspace(Start, a))

Restore ==
    /\ pc = "idle"
    /\ \E workspace, session, numeric, clear, focus \in BOOLEAN, target \in Targets :
      \E workspaces \in ArgsFor(session, workspace) :
        LET a == [NoArgs EXCEPT !.cmd = "restore", !.workspace = workspace,
                      !.session = session, !.numeric = numeric, !.clear = clear,
                      !.focus = focus, !.target = target, !.workspaces = workspaces]
        IN  Finish(a, restore_workspaces(Start, a))

Load ==
    /\ pc = "idle"
    /\ \E workspace, numeric, clear \in BOOLEAN, target \in Targets :
      \E workspace_layout \in WsIds, target_workspace \in WsIds \cup {None} :
        LET a == [NoArgs EXCEPT !.cmd = "load", !.workspace = workspace,
                      !.numeric = numeric, !.clear = clear, !.target = target,
                      !.workspace_layout = workspace_layout,
                      !.target_workspace = target_workspace]
        IN  Finish(a, load_workspaces(Start, a))

Rm ==
    /\ pc = "idle"
    /\ \E workspace, session, profile \in BOOLEAN, target \in Targets :
      \E workspaces \in ArgsFor(session, workspace) :
        LET a == [NoArgs EXCEPT !.cmd = "rm", !.workspace = workspace,
                      !.session = session, !.profile = profile, !.target = target,
                      !.workspaces = workspaces]
        IN  Finish(a, remove(Start, a))

Close ==
    /\ pc = "idle"
    /\ \E workspace, session \in BOOLEAN :
      \E workspaces \in ArgsFor(session, workspace) :
        LET a == [NoArgs EXCEPT !.cmd = "close", !.workspace = workspace,
                      !.session = session, !.workspaces = workspaces]
        IN  Finish(a, close(Start, a))

Next == Save \/ Restore \/ Load \/ Rm \/ Close

Spec == Init /\ [][Next]_vars

\* the commands that replay snapshots
NextRestore == Restore \/ Load

SpecRestore == Init /\ [][NextRestore]_vars

\* the commands that write and delete snapshots
NextRemove == Save \/ Rm

SpecRemove == Init /\ [][NextRemove]_vars

----------------------------------------------------------------------------
(* Properties *)

Done == pc = "done"

Idx == 1..Len(log)

IsSwitch(e) == e.op = "workspace"
IsInject(e) == e.op = "append_layout"
IsLaunch(e) == e.op = "programs.restore"
IsWMCommand(e) == e.op \in {"workspace", "append_layout", "kill", "programs.restore"}

Raised(what) == \E i \in Idx : log[i].op = "raise" /\ log[i].what = what

Had(fs, id, kind) == Exists(fs, Path(id, kind))

\* the snapshot files of the initial directory that hold a restorable document
GoodLayout(id) ==
    /\ Had(files0, id, "layout")
    /\ FileAt(files0, Path(id, "layout")).json
    /\ FileAt(files0, Path(id, "layout")).hasName

\* a snapshot file of the workspace that the restore reads is not JSON
Malformed(id) ==
    \/ Had(files0, id, "layout") /\ ~FileAt(files0, Path(id, "layout")).json
    \/ /\ inv.target # "layout_only"
       /\ Had(files0, id, "programs") /\ ~FileAt(files0, Path(id, "programs")).json

\* the directory holds both files of every workspace id
Complete == \A id \in FileIds : Had(files0, id, "layout") /\ Had(files0, id, "programs")

\* list_filenames pairs every layout file with the programs file of its workspace
Aligned ==
    LET listed == list_filenames(dirExists0, files0)
    IN  /\ listed.error = ""
        /\ \A n \in 1..Len(listed.files) :
              listed.files[n].layout_file.id = listed.files[n].programs_file.id

SessionRestore == Done /\ inv.cmd = "restore" /\ inv.session

\* the workspace saved under id went through switch, injection and launch
Restored(id) ==
    LET name == FileAt(files0, Path(id, "layout")).name
    IN  /\ \E i \in Idx : IsSwitch(log[i]) /\ log[i].ws = name
        /\ inv.target # "programs_only" =>
              \E i \in Idx : IsInject(log[i]) /\ log[i].ws = name /\ log[i].src = id
        /\ inv.target # "layout_only" =>
              \E i \in Idx : IsLaunch(log[i]) /\ log[i].ws = name

\* C1: in a whole-session restore, a snapshot file that is malformed JSON aborts
\* only its own workspace: every other workspace of the directory is still
\* switched to, injected and launched, and the exit code is non-zero.
C1_MalformedSnapshotIsolated ==
    (SessionRestore /\ Complete /\ Aligned /\ \E id \in FileIds : Malformed(id))
        => /\ exitCode # 0
           /\ \A id \in FileIds :
                 (~Malformed(id) /\ GoodLayout(id)) => Restored(id)

MissingSelector ==
    \/ inv.cmd \in {"save", "restore", "rm", "close"} /\ ~inv.workspace /\ ~inv.session
    \/ inv.cmd = "load" /\ ~inv.workspace

\* C2: a command invoked without its required selector reports the error, exits
\* with code 1 and has taken no partial action: the snapshot directory and its
\* files are as before and no command went to the window manager.
C2_UsageErrorNoPartialAction ==
    (Done /\ MissingSelector)
        => /\ exitCode = 1
           /\ \E i \in Idx : log[i].op \in {"eprint", "raise"}
           /\ files = files0
           /\ dirExists = dirExists0
           /\ \A i \in Idx : ~IsWMCommand(log[i])

\* restore --workspace W for one explicitly named, valid W
RestoreOne ==
    /\ Done /\ inv.cmd = "restore" /\ inv.workspace /\ ~inv.session
    /\ Len(inv.workspaces) = 1
    /\ inv.numeric => isdigit(inv.workspaces[1])

LayoutOf(workspace_id) == FileAt(files0, Path(filename_filter(workspace_id), "layout"))

HasLayout(workspace_id) ==
    /\ Had(files0, filename_filter(workspace_id), "layout")
    /\ LayoutOf(workspace_id).json

\* the restore switched to ws, then injected and launched there as the target asks
Proceeded(ws) ==
    /\ exitCode = 0
    /\ \E i \in Idx : IsSwitch(log[i]) /\ log[i].ws = ws
    /\ inv.target # "programs_only" => \E i \in Idx : IsInject(log[i]) /\ log[i].ws = ws
    /\ inv.target # "layout_only" => \E i \in Idx : IsLaunch(log[i]) /\ log[i].ws = ws

\* C3 as stated: the switch targets the name recorded in the layout document;
\* a document without a name falls back to the caller's workspace id and the
\* restore still switches, injects and launches.
C3_FallsBackToCallerId ==
    (RestoreOne /\ HasLayout(inv.workspaces[1]))
        => Proceeded(IF LayoutOf(inv.workspaces[1]).hasName
                     THEN LayoutOf(inv.workspaces[1]).name
                     ELSE inv.workspaces[1])

\* the layout document a read event of the log returned, NoneDoc if none
DocRead(i) ==
    IF log[i].op = "read" /\ log[i].what = "layout"
          /\ Had(files0, log[i].src, "layout")
          /\ FileAt(files0, Path(log[i].src, "layout")).json
    THEN FileAt(files0, Path(log[i].src, "layout"))
    ELSE NoneDoc

NameNotFound(e) == e.op = "eprint" /\ e.what = "Workspace name not found."

\* C3, amended: in restore, the switch issued for a snapshot targets the name
\* recorded in its layout document; a layout document without a name ends the
\* invocation with exit code 1 (reporting "Workspace name not found." unless
\* its programs file already failed to parse), and nothing is switched to,
\* injected or launched for it or after it.
C3_NameRequired ==
    (Done /\ inv.cmd = "restore")
        => \A i \in Idx :
              DocRead(i) # NoneDoc =>
                 IF DocRead(i).hasName
                 THEN \A j \in Idx :
                         (j > i /\ IsSwitch(log[j])
                            /\ \A k \in (i+1)..(j-1) : log[k].op \in {"read", "eprint"})
                         => log[j].ws = DocRead(i).name
                 ELSE /\ exitCode = 1
                      /\ NameNotFound(log[Len(log)]) \/ Raised("JSONDecodeError")
                      /\ \A j \in Idx : j > i => ~IsWMCommand(log[j])

C3_Witness ==
    /\ RestoreOne /\ HasLayout(inv.workspaces[1])
    /\ ~LayoutOf(inv.workspaces[1]).hasName
    /\ exitCode = 1 /\ NameNotFound(log[Len(log)])

SessionClear ==
    \/ inv.cmd = "rm" /\ inv.session /\ dirExists0
    \/ inv.cmd = "save" /\ inv.clear

\* C4: a session clear never fails because a file is absent, whatever the
\* directory holds; rm --workspace W fails when a file of W it is to delete
\* is missing.
C4_RemovalErrors ==
    /\ (Done /\ SessionClear)
          => ~Raised("IndexError") /\ ~Raised("FileNotFoundError")
    /\ (Done /\ inv.cmd = "rm" /\ inv.workspace /\ ~(inv.session /\ dirExists0)
             /\ inv.target = ""
             /\ \E n \in 1..Len(inv.workspaces), kind \in {"layout", "programs"} :
                   ~Had(files0, filename_filter(inv.workspaces[n]), kind))
          => Raised("FileNotFoundError") /\ exitCode = 1

\* rm --workspace W for one W whose two files are both in the directory
RmOne ==
    /\ Done /\ inv.cmd = "rm" /\ inv.workspace /\ ~(inv.session /\ dirExists0)
    /\ Len(inv.workspaces) = 1
    /\ Had(files0, filename_filter(inv.workspaces[1]), "layout")
    /\ Had(files0, filename_filter(inv.workspaces[1]), "programs")

\* C5: the target flag selects what rm deletes: --layout-only the layout file
\* alone, --programs-only the programs file alone, neither flag both files.
C5_TargetSelectsDeleted ==
    RmOne => LET id == filename_filter(inv.workspaces[1])
             IN  /\ Had(files, id, "layout") <=> inv.target = "programs_only"
                 /\ Had(files, id, "programs") <=> inv.target = "layout_only"

\* C6: load restores into TARGET_WORKSPACE whenever it is given, by name as
\* well as by number; the focused workspace is the target only without it.
C6_LoadTargetsArgument ==
    (Done /\ inv.cmd = "load" /\ exitCode = 0)
        => LET goal == IF inv.target_workspace # None THEN inv.target_workspace
                       ELSE IF inv.numeric THEN NumStr(focused0) ELSE focused0
           IN  \A i \in Idx : IsWMCommand(log[i]) => log[i].ws = goal

Replays == Done /\ inv.cmd \in {"restore", "load"}

LastSwitch == CHOOSE i \in Idx : IsSwitch(log[i]) /\ \A j \in Idx : IsSwitch(log[j]) => j <= i

\* C7: every workspace switch that restore and load issue carries
\* --no-auto-back-and-forth, so the workspace last targeted is the one focused
\* afterwards, also when it was targeted twice in a row or was focused already.
C7_TargetingIdempotent ==
    Replays
        => /\ \A i \in Idx : IsSwitch(log[i]) => log[i].noABF
           /\ (\E i \in Idx : IsSwitch(log[i])) => focused = Resolve(log[LastSwitch])

\* a workspace was targeted while it was focused already, and it still is
C7_Witness ==
    /\ Replays
    /\ \E i \in Idx :
          /\ IsSwitch(log[i]) /\ Resolve(log[i]) = focused
          /\ \/ \A j \in 1..(i-1) : ~IsSwitch(log[j]) /\ focused0 = focused
             \/ \E j \in 1..(i-1) : IsSwitch(log[j]) /\ Resolve(log[j]) = focused
                   /\ \A k \in (j+1)..(i-1) : ~IsSwitch(log[k])

RestoreCompleted == Done /\ inv.cmd = "restore" /\ exitCode = 0

\* C8: restore with the focus flag ends, after every selected workspace was
\* injected and launched, with a switch back to the workspace that was focused
\* when the invocation began; without the flag every switch is the targeting
\* step of a workspace being restored.
C8_FocusRestoredLast ==
    RestoreCompleted
        => IF inv.focus
           THEN /\ Len(log) >= 2
                /\ log[Len(log)] = Switch(focused0, TRUE, FALSE)
                /\ log[Len(log) - 1].op = "sleep"
                /\ focused = focused0
                /\ \A i \in 1..(Len(log) - 1) :
                      IsSwitch(log[i]) =>
                         (IsInject(log[i+1]) \/ IsLaunch(log[i+1])) /\ log[i+1].ws = log[i].ws
           ELSE \A i \in Idx :
                   IsSwitch(log[i]) =>
                      /\ i < Len(log)
                      /\ (IsInject(log[i+1]) \/ IsLaunch(log[i+1])) /\ log[i+1].ws = log[i].ws

\* the restore moved to another workspace and came back
C8_Witness ==
    /\ RestoreCompleted /\ inv.focus
    /\ \E i \in Idx : IsSwitch(log[i]) /\ log[i].ws # focused0
    /\ \E i \in Idx : IsLaunch(log[i])
    /\ focused = focused0

\* C9: for each workspace restored by restore or load the steps are switch,
\* then layout injection, then program restore: an injection directly follows
\* the switch to its workspace, a launch directly follows the injection (the
\* switch with programs-only); programs-only never injects, layout-only never
\* launches and never reads a programs file.
C9_StepOrder ==
    Replays
        => /\ \A i \in Idx :
                 IsInject(log[i]) =>
                    /\ inv.target # "programs_only"
                    /\ i > 1 /\ IsSwitch(log[i-1]) /\ log[i-1].ws = log[i].ws
           /\ \A i \in Idx :
                 IsLaunch(log[i]) =>
                    /\ inv.target # "layout_only"
                    /\ i > 1 /\ log[i-1].ws = log[i].ws
                    /\ IF inv.target = "programs_only"
                       THEN IsSwitch(log[i-1]) ELSE IsInject(log[i-1])
           /\ \A i \in Idx :
                 IsSwitch(log[i]) /\ i < Len(log) /\ inv.target # "programs_only"
                    => IsInject(log[i+1])
           /\ inv.target = "layout_only"
                 => \A i \in Idx : ~(log[i].op = "read" /\ log[i].what = "programs")

\* a full restore of a workspace: switch, injection, launch
C9_Witness ==
    /\ Replays /\ inv.target = ""
    /\ \E i \in Idx :
          /\ i + 2 <= Len(log)
          /\ IsSwitch(log[i]) /\ IsInject(log[i+1]) /\ IsLaunch(log[i+2])

UsedListing ==
    \/ inv.cmd = "restore" /\ inv.session
    \/ inv.cmd = "rm" /\ inv.session /\ dirExists0
    \/ inv.cmd = "save" /\ inv.clear

\* C10: every (layout_file, programs_file) pair of list_filenames belongs to
\* one workspace id, whatever the directory holds and however it is enumerated,
\* so a session restore reads (and launches) the programs file of the layout
\* it has just read, and a session clear deletes the two files of one
\* workspace together.
C10_PairsSameWorkspace ==
    (Done /\ UsedListing)
        => \A i \in Idx :
              /\ (i > 1 /\ log[i].op = "read" /\ log[i].what = "programs")
                    => log[i-1].op = "read" /\ log[i-1].src = log[i].src
              /\ (i > 1 /\ log[i].op = "unlink" /\ log[i].what = "layout"
                        /\ log[i-1].op = "unlink" /\ log[i-1].what = "programs")
                    => log[i-1].src = log[i].src

====
